---- MODULE Spec2Model ----
(***************************************************************************)
(* Model of the code-generation workflow of uikit-agent.                   *)
(*                                                                         *)
(* One run of the graph built by CodeGeneratorAgent._build_graph:          *)
(*   validate_input -> retrieve_mcp_context -> {web || mobile} -> END      *)
(* where each platform branch is                                           *)
(*   prepare -> generate -> write -> lint -> (fix -> write -> lint)* ->    *)
(*   push -> END                                                           *)
(* and the task wrapper _async_code_generation that hands the result to    *)
(* the caller.                                                             *)
(*                                                                         *)
(* The model starts where graph.ainvoke(initial_state) is called: the       *)
(* construction of the agent (CodeGeneratorAgent.__aenter__) is not part   *)
(* of it.                                                                  *)
(*                                                                         *)
(* A second specification, SpecFn, calls the pure helpers of the nodes on  *)
(* their own (name extraction, availability check, the fetch loop,         *)
(* clean_code_output, inject_code, the branch name) over bounded inputs.   *)
(* It also steps through the scope of the agent (__aenter__) and through   *)
(* two runs that work in the checkout of one platform.                     *)
(*                                                                         *)
(* Abstractions:                                                           *)
(*  - a status event is its (scope, status) pair; timestamp and message    *)
(*    are left out;                                                        *)
(*  - texts (code, docs, diagnostics, exception messages) are drawn from   *)
(*    small sets of representative strings; "" is the empty string and     *)
(*    None stands for Python's None;                                       *)
(*  - the state of the run holds every key of the initial state of         *)
(*    _async_code_generation and every key is merged by replacement,       *)
(*    status_history by operator.add;                                      *)
(*  - the two branches advance in steps of one node each (a branch does    *)
(*    not start its next node before its sibling has finished the current  *)
(*    one); which branch goes first inside a step is chosen at the fan-out *)
(*    and kept for the run;                                                *)
(*  - the environment (model, linter, file system, git, documentation      *)
(*    sources) may fail; the number of failing steps in one run is         *)
(*    bounded by MaxFaults.                                                *)
(***************************************************************************)
EXTENDS Integers, Sequences, FiniteSets, TLC

\* ------------------------------------------------------------------ values

Platforms == {"web", "mobile"}

Other(p) == IF p = "web" THEN "mobile" ELSE "web"

None == "None"

\* base_codegen_nodes.py:16, web_nodes.py:18
MAX_ITERATIONS == 3

\* Bound of the model: how many steps of one run may leave the clean path (an
\* exception raised by the environment, or a linter run that reports errors).
MaxFaults == 3

\* figma_json as the task receives it: JSON null, an empty object, an object
\* tree, a list root.
FigmaInputs == {"null", "empty", "tree", "list"}

\* What the model client returns, after clean_code_output, to the generation
\* prompt and to the fix prompt.
GenOutputs == {"A"}

FixOutputs == {"B"}

\* The file as eslint --fix leaves it: "A" is rewritten, "B" is left as it is.
Reformat(text) == IF text = "A" THEN "Af" ELSE text

\* Diagnostics of a failing linter run (stdout, else stderr; both may be empty).
LintOutputs == {"", "lint"}

\* str(e) of an exception raised inside the lint step.
ExcMessages == {"", "exc"}

\* str(e) of the FileNotFoundError of read_file.
ENOENT == "enoent"

\* Documentation blob a source returns ("" when no component is available).
DocBlobs == {"", "docs"}

\* What a documentation source does in one run: its list_components call
\* raises, the get_component_doc call of the requested component raises, or it
\* answers and the fetch builds a blob.
SourceOutcomes == {"list_raised", "doc_raised"} \cup DocBlobs

NoFile == "NoFile"

Ev(scope, status) == [scope |-> scope, status |-> status]

\* BaseCodeGenNodes._key
_key(p, suffix) == <<p, suffix>>

Common == <<"common", "">>

\* Python truthiness of an optional string.
Truthy(v) == v # None /\ v # ""

\* ------------------------------------------------------------------ state

VARIABLES
    figma_json,      \* input of the run
    run,             \* "running", "raised" (a node raised), "returned"
    pcMain,          \* next common node
    pc,              \* pc[p]: next node of branch p
    steps,           \* steps[p]: nodes branch p has executed
    first,           \* the branch whose node runs first in every step
    status_history,  \* CodeGenState.status_history
    docs,            \* web_docs / mobile_docs
    code,            \* web_code / mobile_code
    lint_errors,     \* web_lint_errors / mobile_lint_errors
    iterations,      \* web_iterations / mobile_iterations
    file,            \* workspace: content of the generated file
    commit,          \* workspace: message of the commit created by push
    remote,          \* content of the file on the pushed branch
    sink,            \* events stored by StatusReporter.report
    sinkUp,          \* whether the store behind StatusReporter answers
    taskResult,      \* dict returned by _async_code_generation
    faults,          \* failures raised so far
    call,            \* a helper function called on its own: name, argument,
                     \* result
    hist             \* history variables of the run

vars == <<figma_json, sinkUp, call, run, pcMain, pc, steps, first, status_history, docs, code,
          lint_errors, iterations, file, commit, remote, sink, taskResult,
          faults, hist>>

NoResult == [keys |-> {}, status_history |-> <<>>,
             code |-> [p \in Platforms |-> None],
             lint_errors |-> [p \in Platforms |-> None]]

\* History variables: what happened in the run, never read by the program.
\*   executed:   names of the nodes that have run
\*   returned:   per branch, the events its nodes returned in status_history
\*   srcOutcome: per source, what the source did (SourceOutcomes)
\*   srcResult:  per source, what _fetch_docs produced ("raised" or a blob)
\*   lastLint:   per branch, outcome of the latest lint run
\*   lintRuns, fixRuns: per branch counts of lint and fix executions
\*   lintSeq:    per branch, the outcomes of its lint runs in order
\*   pushRuns:   per branch, count of push executions
\*   pushMsg:    per branch, the commit message push_code passed to
\*               commit_and_push
\*   pushEvents: per branch, the events the push node returned
\*   iterWrites: per branch, the (stage, value) of every update of the retry
\*               counter that a node returned
\*   routed:     per branch, the latest router evaluation
\*   trace:      per branch, the stages of the nodes that have run, in order
\*   raisedBy:   the node whose exception ended the run
NoNode == <<"none", "">>

NoRoute == [errors |-> None, iterations |-> 0, dest |-> "none"]

HistInit ==
    [executed  |-> {},
     returned  |-> [p \in Platforms |-> <<>>],
     srcOutcome |-> [p \in Platforms |-> "unset"],
     srcResult |-> [p \in Platforms |-> "unset"],
     lastLint  |-> [p \in Platforms |-> "none"],
     lintRuns  |-> [p \in Platforms |-> 0],
     fixRuns   |-> [p \in Platforms |-> 0],
     lintSeq   |-> [p \in Platforms |-> <<>>],
     pushRuns  |-> [p \in Platforms |-> 0],
     pushMsg   |-> [p \in Platforms |-> None],
     pushEvents |-> [p \in Platforms |-> <<>>],
     iterWrites |-> [p \in Platforms |-> <<>>],
     routed    |-> [p \in Platforms |-> NoRoute],
     trace     |-> [p \in Platforms |-> <<>>],
     raisedBy  |-> NoNode]

\* No helper is called on its own during a run of the graph.
NoCall == [fn |-> "none", arg |-> <<>>, done |-> FALSE, res |-> <<>>]

\* initial_state of _async_code_generation
Init ==
    /\ figma_json \in FigmaInputs
    /\ run = "running"
    /\ pcMain = "validate_input"
    /\ pc = [p \in Platforms |-> "waiting"]
    /\ steps = [p \in Platforms |-> 0]
    /\ first = None
    /\ status_history = <<>>
    /\ docs = [p \in Platforms |-> None]
    /\ code = [p \in Platforms |-> None]
    /\ lint_errors = [p \in Platforms |-> None]
    /\ iterations = [p \in Platforms |-> 0]
    /\ file = [p \in Platforms |-> NoFile]
    /\ commit = [p \in Platforms |-> None]
    /\ remote = [p \in Platforms |-> NoFile]
    /\ sink = <<>>
    /\ sinkUp \in BOOLEAN
    /\ call = NoCall
    /\ taskResult = NoResult
    /\ faults = 0
    /\ hist = HistInit

\* ------------------------------------------------------------ the executor

\* Faulty reducers: the default "replace" policy, and a prepending one.
operator_add_overwrite(old, new) == new

operator_add_prepend(old, new) == new \o old

\* Reducer of status_history: Annotated[list[StatusEvent], operator.add]
operator_add(old, new) == old \o new

\* A key of the state that does not belong to a platform.
Shared(name) == <<"", name>>

\* The keys CodeGenState declares; status_history is the one with a reducer.
DeclaredFields ==
    {Shared("figma_json"), Shared("component_name"), Shared("user_prompt"),
     Shared("status_history")}
    \cup {_key(p, suffix) : p \in Platforms, suffix \in {"docs", "code"}}

\* A node returns a dict holding only the keys it updates.
EmptyDict == [k \in {} |-> None]

\* Every key but status_history is replaced by the value the node returned.
Replace(old, upd, key) == IF key \in DOMAIN upd THEN upd[key] ELSE old

Reduce(old, upd) ==
    IF "status_history" \in DOMAIN upd THEN operator_add(old, upd.status_history)
                                       ELSE old

Events(upd) ==
    IF "status_history" \in DOMAIN upd THEN upd.status_history ELSE <<>>

\* StatusReporter.report: rpush of each event to the task's history list; when
\* the store does not answer the command raises and nothing is stored.
report(log, evs, up) == IF up THEN log \o evs ELSE log

\* Faulty variant: the exception of the store leaves report.
report_propagates(up) == ~up

\* Whether report raises to its caller: every exception is caught and logged.
report_raises(up) == FALSE

\* A node reports evs: the effect on the sink and on the run.
Report(evs) ==
    /\ sink' = report(sink, evs, sinkUp)
    /\ run' = IF evs # <<>> /\ report_raises(sinkUp) THEN "raised" ELSE run

CanFail == faults < MaxFaults

Node(stage, p) == <<stage, p>>

ValidateNode == <<"validate_input", "">>

RetrieveNode == <<"retrieve_mcp_context", "">>

Ran(h, node) ==
    [h EXCEPT !.executed = @ \cup {node},
              !.trace = IF node[2] \in Platforms
                        THEN [@ EXCEPT ![node[2]] = Append(@, node[1])]
                        ELSE @]

Finished ==
    \/ pcMain = "END"
    \/ pcMain = "pipelines" /\ \A p \in Platforms : pc[p] = "END"

\* A branch runs its next node when the run is alive and its sibling is not a
\* step behind; inside a step the branch `first` goes first.
Active(p, stage) ==
    /\ run = "running"
    /\ pcMain = "pipelines"
    /\ pc[p] = stage
    /\ \A q \in Platforms \ {p} :
         \/ pc[q] = "END"
         \/ IF p = first THEN steps[p] <= steps[q] ELSE steps[p] < steps[q]

Advance(p, next) ==
    /\ pc' = [pc EXCEPT ![p] = next]
    /\ steps' = [steps EXCEPT ![p] = @ + 1]

\* Faulty variant: the keys of the dict are not prefixed by the platform, the
\* update lands in the fields of both branches.
Merge_unprefixed(p, upd) ==
    /\ code' = [q \in Platforms |-> Replace(code[q], upd, "code")]
    /\ lint_errors' = [q \in Platforms |-> Replace(lint_errors[q], upd, "lint_errors")]
    /\ iterations' = [q \in Platforms |-> Replace(iterations[q], upd, "iterations")]
    /\ status_history' = Reduce(status_history, upd)

\* Merge of the dict a node of branch p returned into the state of the run.
Merge(p, upd) ==
    /\ code' = [code EXCEPT ![p] = Replace(@, upd, "code")]
    /\ lint_errors' = [lint_errors EXCEPT ![p] = Replace(@, upd, "lint_errors")]
    /\ iterations' = [iterations EXCEPT ![p] = Replace(@, upd, "iterations")]
    /\ status_history' = Reduce(status_history, upd)

\* ------------------------------------------------------- validate_input

\* Faulty variant: `if figma_data is None`, which lets an empty tree through.
validate_input_none_only(fj) ==
    IF fj = "null"
    THEN [status_history |-> <<Ev(Common, "error")>>]
    ELSE [status_history |-> <<Ev(Common, "success")>>]

\* InputValidationNodes.validate_input: `if not figma_data`
validate_input(fj) ==
    IF fj \in {"null", "empty"}
    THEN [status_history |-> <<Ev(Common, "error")>>]
    ELSE [status_history |-> <<Ev(Common, "success")>>]

\* Faulty variant: the gate lets every run through.
validation_should_continue_always(history) == "retrieve_mcp_context"

\* InputValidationNodes.should_continue
validation_should_continue(history) ==
    IF history[Len(history)].status = "error" THEN "END"
                                              ELSE "retrieve_mcp_context"

ValidateInput ==
    /\ run = "running"
    /\ pcMain = "validate_input"
    /\ status_history' = Reduce(status_history, validate_input(figma_json))
    /\ pcMain' = validation_should_continue(status_history')
    /\ hist' = Ran(hist, ValidateNode)
    /\ UNCHANGED <<figma_json, sinkUp, call, first, run, pc, steps, docs, code, lint_errors,
                   iterations, file, commit, remote, sink, taskResult, faults>>

\* ------------------------------------------------- retrieve_mcp_context

\* MCPContextRetrievalNode.retrieve_context, lines 60-66
Placeholder(p) ==
    IF p = "web" THEN "Error retrieving Web docs."
                 ELSE "Error retrieving Mobile docs."

\* MCPContextRetrievalNode._fetch_docs: an exception of list_components leaves
\* the fetch; an exception of get_component_doc is caught and the component is
\* left out of the blob.
_fetch_docs(outcome) ==
    IF outcome = "list_raised" THEN "raised"
    ELSE IF outcome = "doc_raised" THEN ""
    ELSE outcome

\* Faulty variant: the exception object is not replaced by the placeholder.
docs_of_unset(p, result) == IF result = "raised" THEN None ELSE result

\* asyncio.gather(..., return_exceptions=True) and the isinstance checks
docs_of(p, result) == IF result = "raised" THEN Placeholder(p) ELSE result

\* The dict retrieve_context returns.
retrieve_context(res) ==
    [docs |-> [p \in Platforms |-> docs_of(p, res[p])],
     status_history |-> <<Ev(Common, "success")>>]

\* _extract_component_names: node.get on the root
extraction_raises(fj) == fj = "list"

RetrieveContextRaise ==
    /\ run = "running"
    /\ pcMain = "retrieve_mcp_context"
    /\ extraction_raises(figma_json)
    /\ run' = "raised"
    /\ hist' = [Ran(hist, RetrieveNode) EXCEPT !.raisedBy = RetrieveNode]
    /\ UNCHANGED <<figma_json, sinkUp, call, first, pcMain, pc, steps, status_history, docs, code,
                   lint_errors, iterations, file, commit, remote, sink,
                   taskResult, faults>>

RetrieveContext ==
    /\ run = "running"
    /\ pcMain = "retrieve_mcp_context"
    /\ ~extraction_raises(figma_json)
    /\ \E out \in [Platforms -> SourceOutcomes] :
         LET n == Cardinality({p \in Platforms : out[p] \notin DocBlobs})
             res == [p \in Platforms |-> _fetch_docs(out[p])]
             upd == retrieve_context(res) IN
         /\ faults + n <= MaxFaults
         /\ faults' = faults + n
         /\ docs' = upd.docs
         /\ status_history' = Reduce(status_history, upd)
         /\ hist' = [Ran(hist, RetrieveNode) EXCEPT !.srcOutcome = out,
                                                    !.srcResult = res]
    /\ pcMain' = "pipelines"
    /\ pc' = [p \in Platforms |-> "prepare"]
    /\ first' \in Platforms
    /\ UNCHANGED <<figma_json, sinkUp, call, run, steps, code, lint_errors, iterations, file,
                   commit, remote, sink, taskResult>>

\* ------------------------------------------------------ platform nodes

Returned(h, p, node, upd) ==
    [Ran(h, node) EXCEPT
       !.returned[p] = @ \o Events(upd),
       !.iterWrites[p] =
          IF "iterations" \in DOMAIN upd
          THEN Append(@, [stage |-> node[1], value |-> upd.iterations])
          ELSE @]

\* --- prepare_repo

\* The dict prepare_repo returns after workspace.prepare_repo.
prepare_repo(p) == [iterations |-> 0]

\* Events prepare_repo reports: BaseCodeGenNodes reports success, WebPipelineNodes
\* (web_nodes.py) does not.
prepare_reports(p, ok) ==
    <<Ev(_key(p, "git"), "pending")>> \o
    (IF ~ok THEN <<Ev(_key(p, "git"), "error")>>
     ELSE IF p = "web" THEN <<>> ELSE <<Ev(_key(p, "git"), "success")>>)

PrepareRepo(p) ==
    /\ Active(p, "prepare")
    /\ LET upd == prepare_repo(p) IN
       /\ Merge(p, upd)
       /\ hist' = Returned(hist, p, Node("prepare", p), upd)
    \* git reset --hard origin/main, git clean -fd, git checkout -B
    /\ file' = [file EXCEPT ![p] = NoFile]
    /\ Report(prepare_reports(p, TRUE))
    /\ Advance(p, "generate")
    /\ UNCHANGED <<figma_json, sinkUp, call, first, pcMain, docs, commit, remote, taskResult,
                   faults>>

\* workspace.prepare_repo raises: the event is reported and the exception
\* re-raised out of the node.
PrepareRepoRaise(p) ==
    /\ Active(p, "prepare")
    /\ CanFail
    /\ faults' = faults + 1
    /\ sink' = report(sink, prepare_reports(p, FALSE), sinkUp)
    /\ run' = "raised"
    /\ hist' = [Ran(hist, Node("prepare", p)) EXCEPT !.raisedBy = Node("prepare", p)]
    /\ UNCHANGED <<figma_json, sinkUp, call, first, pcMain, pc, steps, status_history, docs, code,
                   lint_errors, iterations, file, commit, remote, taskResult>>

\* --- generate_code

\* Faulty variant: a failed generation stores an empty candidate.
generate_code_sets_empty(p, out) ==
    IF out = "raised"
    THEN [code |-> "", status_history |-> <<Ev(_key(p, "gen"), "error")>>]
    ELSE [code |-> out, status_history |-> <<Ev(_key(p, "gen"), "success")>>]

\* out is the cleaned model response, or "raised" when ainvoke or
\* clean_code_output raised.
generate_code(p, out) ==
    IF out = "raised"
    THEN [status_history |-> <<Ev(_key(p, "gen"), "error")>>]
    ELSE [code |-> out, status_history |-> <<Ev(_key(p, "gen"), "success")>>]

GenerateCode(p) ==
    /\ Active(p, "generate")
    /\ \E out \in GenOutputs \cup {"raised"} :
         LET upd == generate_code(p, out) IN
         /\ out = "raised" => CanFail
         /\ faults' = IF out = "raised" THEN faults + 1 ELSE faults
         /\ Merge(p, upd)
         /\ hist' = Returned(hist, p, Node("generate", p), upd)
         /\ Report(<<Ev(_key(p, "gen"), "pending")>> \o Events(upd))
    /\ Advance(p, "write")
    /\ UNCHANGED <<figma_json, sinkUp, call, first, pcMain, docs, file, commit, remote,
                   taskResult>>

\* --- write_file

\* Faulty variant: an existing file is left as it is.
inject_code_keeps_existing(old, text, io) ==
    IF io \/ old # NoFile THEN old ELSE IF text = None THEN "" ELSE text

\* RepositoryWorkspace.inject_code: the file after the call. open(.., "w")
\* creates or truncates the file before f.write(code) runs; io stands for an
\* OSError of mkdir or open.
inject_code(old, text, io) ==
    IF io THEN old ELSE IF text = None THEN "" ELSE text

\* f.write(None) raises TypeError.
inject_code_raises(text, io) == io \/ text = None

write_file(p, raised) ==
    IF raised THEN [status_history |-> <<Ev(_key(p, "write"), "error")>>]
              ELSE [status_history |-> <<Ev(_key(p, "write"), "success")>>]

WriteFile(p) ==
    /\ Active(p, "write")
    /\ \E io \in BOOLEAN :
         LET upd == write_file(p, inject_code_raises(code[p], io)) IN
         /\ io => CanFail
         /\ faults' = IF io THEN faults + 1 ELSE faults
         /\ file' = [file EXCEPT ![p] = inject_code(@, code[p], io)]
         /\ Merge(p, upd)
         /\ hist' = Returned(hist, p, Node("write", p), upd)
         /\ Report(Events(upd))
    /\ Advance(p, "lint")
    /\ UNCHANGED <<figma_json, sinkUp, call, first, pcMain, docs, commit, remote, taskResult>>

\* --- run_linter and the router

\* Faulty variant: a passing lint run also resets the retry counter.
run_linter_resets(p, iters, kind, text) ==
    CASE kind = "passed" ->
           [code |-> text, lint_errors |-> None, iterations |-> 0,
            status_history |-> <<Ev(_key(p, "lint"), "success")>>]
      [] kind = "failed" ->
           [lint_errors |-> text, iterations |-> iters + 1,
            status_history |-> <<Ev(_key(p, "lint"), "warning")>>]
      [] kind = "raised" ->
           [lint_errors |-> text]

\* Faulty variant: a passing lint run leaves lint_errors as it was.
run_linter_keeps_errors(p, iters, kind, text) ==
    CASE kind = "passed" ->
           [code |-> text,
            status_history |-> <<Ev(_key(p, "lint"), "success")>>]
      [] kind = "failed" ->
           [lint_errors |-> text, iterations |-> iters + 1,
            status_history |-> <<Ev(_key(p, "lint"), "warning")>>]
      [] kind = "raised" ->
           [lint_errors |-> text]

\* Faulty variant: a passing lint run does not read the file back into code.
run_linter_keeps_candidate(p, iters, kind, text) ==
    CASE kind = "passed" ->
           [lint_errors |-> None,
            status_history |-> <<Ev(_key(p, "lint"), "success")>>]
      [] kind = "failed" ->
           [lint_errors |-> text, iterations |-> iters + 1,
            status_history |-> <<Ev(_key(p, "lint"), "warning")>>]
      [] kind = "raised" ->
           [lint_errors |-> text]

\* kind "passed": the linter succeeded and text is the file read back;
\* kind "failed": the linter reported errors and text is its output;
\* kind "raised": run_linter_fix or read_file raised and text is str(e).
run_linter(p, iters, kind, text) ==
    CASE kind = "passed" ->
           [code |-> text, lint_errors |-> None,
            status_history |-> <<Ev(_key(p, "lint"), "success")>>]
      [] kind = "failed" ->
           [lint_errors |-> text, iterations |-> iters + 1,
            status_history |-> <<Ev(_key(p, "lint"), "warning")>>]
      [] kind = "raised" ->
           [lint_errors |-> text]

\* Faulty variant: the router looks at the retry counter only.
should_continue_counter_only(errors, iters) ==
    IF iters < MAX_ITERATIONS THEN "fix" ELSE "push"

\* BaseCodeGenNodes.should_continue / WebPipelineNodes.should_continue
should_continue(errors, iters) ==
    IF Truthy(errors) /\ iters < MAX_ITERATIONS THEN "fix" ELSE "push"

\* The lint node followed by the conditional edge evaluated on the merged state.
Lint(p, kind, text, newFile) ==
    LET upd == run_linter(p, iterations[p], kind, text)
        errs == Replace(lint_errors[p], upd, "lint_errors")
        its == Replace(iterations[p], upd, "iterations")
        dest == should_continue(errs, its) IN
    /\ Merge(p, upd)
    /\ file' = [file EXCEPT ![p] = newFile]
    /\ Report(<<Ev(_key(p, "lint"), "pending")>> \o Events(upd))
    /\ hist' = [Returned(hist, p, Node("lint", p), upd) EXCEPT
                  !.lintRuns[p] = @ + 1,
                  !.lintSeq[p] = Append(@, kind),
                  !.lastLint[p] = kind,
                  !.routed[p] = [errors |-> errs, iterations |-> its, dest |-> dest]]
    /\ Advance(p, dest)
    /\ UNCHANGED <<figma_json, sinkUp, call, first, pcMain, docs, commit, remote, taskResult>>

\* npm run lint exits 0; eslint --fix may have rewritten the file; read_file
\* raises FileNotFoundError when the file does not exist.
RunLinterPass(p) ==
    /\ Active(p, "lint")
    /\ LET f == Reformat(file[p]) IN
         IF f = NoFile THEN Lint(p, "raised", ENOENT, f)
                       ELSE Lint(p, "passed", f, f)
    /\ UNCHANGED faults

\* npm run lint exits non-zero with diagnostics output.
RunLinterFail(p) ==
    /\ Active(p, "lint")
    /\ CanFail
    /\ faults' = faults + 1
    /\ \E output \in LintOutputs : Lint(p, "failed", output, Reformat(file[p]))

\* run_linter_fix raises something other than CalledProcessError, or read_file
\* raises an OSError.
RunLinterRaise(p) ==
    /\ Active(p, "lint")
    /\ CanFail
    /\ faults' = faults + 1
    /\ \E msg \in ExcMessages : Lint(p, "raised", msg, file[p])

\* --- fix_code

\* Faulty variant: a failed fix clears the candidate.
fix_code_clears(out) == IF out = "raised" THEN [code |-> None] ELSE [code |-> out]

\* out is the cleaned model response, or "raised" when ainvoke or
\* clean_code_output raised.
fix_code(out) == IF out = "raised" THEN EmptyDict ELSE [code |-> out]

FixCode(p) ==
    /\ Active(p, "fix")
    /\ \E out \in FixOutputs \cup {"raised"} :
         LET upd == fix_code(out) IN
         /\ out = "raised" => CanFail
         /\ faults' = IF out = "raised" THEN faults + 1 ELSE faults
         /\ Merge(p, upd)
         /\ hist' = [Returned(hist, p, Node("fix", p), upd) EXCEPT !.fixRuns[p] = @ + 1]
    /\ Report(<<Ev(_key(p, "fix"), "pending")>>)
    /\ Advance(p, "write")
    /\ UNCHANGED <<figma_json, sinkUp, call, first, pcMain, docs, file, commit, remote,
                   taskResult>>

\* --- push_code

\* push_code, lines 385-387
commit_message(errors) == IF Truthy(errors) THEN "forced" ELSE "plain"

\* Faulty variant: a failed push is not recorded.
push_code_silent(p, raised, errors) ==
    IF raised THEN EmptyDict
              ELSE [status_history |-> <<Ev(_key(p, "git"), "success")>>]

\* The event of a successful push is "Pushed to <branch>", with or without lint
\* errors in the state: errors selects the commit message only.
push_code(p, raised, errors) ==
    IF raised THEN [status_history |-> <<Ev(_key(p, "git"), "error")>>]
              ELSE [status_history |-> <<Ev(_key(p, "git"), "success")>>]

\* git status --porcelain after git add: the generated file is the only change.
tree_dirty(f) == f # NoFile

\* RepositoryWorkspace.commit_and_push. at: "none" (no failure), "commit"
\* (git add or git commit raises), "push" (git push raises).
PushCode(p) ==
    /\ Active(p, "push")
    /\ \E at \in {"none", "commit", "push"} :
         LET upd == push_code(p, at # "none", lint_errors[p])
             committed == tree_dirty(file[p]) /\ at # "commit"
             pushed == tree_dirty(file[p]) /\ at = "none" IN
         /\ at # "none" => CanFail
         /\ at = "push" => tree_dirty(file[p])
         /\ faults' = IF at # "none" THEN faults + 1 ELSE faults
         /\ commit' = [commit EXCEPT ![p] =
                         IF committed THEN commit_message(lint_errors[p]) ELSE @]
         /\ remote' = [remote EXCEPT ![p] = IF pushed THEN file[p] ELSE @]
         /\ Merge(p, upd)
         /\ hist' = [Returned(hist, p, Node("push", p), upd) EXCEPT
                       !.pushRuns[p] = @ + 1,
                       !.pushMsg[p] = commit_message(lint_errors[p]),
                       !.pushEvents[p] = Events(upd)]
         /\ Report(Events(upd))
    /\ Advance(p, "END")
    /\ UNCHANGED <<figma_json, sinkUp, call, first, pcMain, docs, file, taskResult>>

\* ------------------------------------------------ _async_code_generation

\* graph.ainvoke returned: lines 93-103
TaskReturn ==
    /\ run = "running"
    /\ Finished
    /\ run' = "returned"
    /\ taskResult' = [keys |-> {"status_history", "web_code", "mobile_code",
                                "web_lint_errors", "mobile_lint_errors"},
                      status_history |-> status_history,
                      code |-> code,
                      lint_errors |-> lint_errors]
    /\ UNCHANGED <<figma_json, sinkUp, call, first, pcMain, pc, steps, status_history, docs, code,
                   lint_errors, iterations, file, commit, remote, sink, faults,
                   hist>>

\* graph.ainvoke raised: lines 105-107, return {"error": str(e)}
TaskExcept ==
    /\ run = "raised"
    /\ run' = "returned"
    /\ taskResult' = [NoResult EXCEPT !.keys = {"error"}]
    /\ UNCHANGED <<figma_json, sinkUp, call, first, pcMain, pc, steps, status_history, docs, code,
                   lint_errors, iterations, file, commit, remote, sink, faults,
                   hist>>

Next ==
    \/ ValidateInput
    \/ RetrieveContextRaise
    \/ RetrieveContext
    \/ \E p \in Platforms :
         \/ PrepareRepo(p)
         \/ PrepareRepoRaise(p)
         \/ GenerateCode(p)
         \/ WriteFile(p)
         \/ RunLinterPass(p)
         \/ RunLinterFail(p)
         \/ RunLinterRaise(p)
         \/ FixCode(p)
         \/ PushCode(p)
    \/ TaskReturn
    \/ TaskExcept

Spec == Init /\ [][Next]_vars

\* ------------------------------------------------- helpers called on their own
\*
\* The helpers below are pure functions of their arguments. SpecFn calls one
\* helper on one argument: the initial state draws the helper and its argument,
\* the action of the helper stores its result in call.res.

\* The variables of the run, at rest.
RunAtRest ==
    /\ figma_json = "null"
    /\ run = "running"
    /\ pcMain = "validate_input"
    /\ pc = [p \in Platforms |-> "waiting"]
    /\ steps = [p \in Platforms |-> 0]
    /\ first = None
    /\ status_history = <<>>
    /\ docs = [p \in Platforms |-> None]
    /\ code = [p \in Platforms |-> None]
    /\ lint_errors = [p \in Platforms |-> None]
    /\ iterations = [p \in Platforms |-> 0]
    /\ file = [p \in Platforms |-> NoFile]
    /\ commit = [p \in Platforms |-> None]
    /\ remote = [p \in Platforms |-> NoFile]
    /\ sink = <<>>
    /\ sinkUp = TRUE
    /\ taskResult = NoResult
    /\ faults = 0
    /\ hist = HistInit

RunVars == <<figma_json, sinkUp, run, pcMain, pc, steps, first, status_history,
             docs, code, lint_errors, iterations, file, commit, remote, sink,
             taskResult, faults, hist>>

Calls(fn, args) == {[fn |-> fn, arg |-> a, done |-> FALSE, res |-> <<>>] : a \in args}

\* The helper fn returns r.
Return(fn, r) ==
    /\ call.fn = fn
    /\ ~call.done
    /\ call' = [call EXCEPT !.done = TRUE, !.res = r]
    /\ UNCHANGED RunVars

\* Sequences over S of length at most n.
SeqsUpTo(S, n) == UNION {[1..k -> S] : k \in 0..n}

\* --- _extract_component_names

\* Bound of the model: the number of nodes of a design tree.
MaxNodes == 4

\* (type, name) of a design node.
NodeKinds == {<<"INSTANCE", "Button">>, <<"INSTANCE", "Card">>,
              <<"FRAME", "Button">>, <<"FRAME", "Frame">>}

RECURSIVE TreesOfSize(_), ForestsOfSize(_)

\* The design trees of exactly n nodes: dicts with type, name and children.
TreesOfSize(n) ==
    {[type |-> k[1], name |-> k[2], children |-> cs] :
        k \in NodeKinds, cs \in ForestsOfSize(n - 1)}

\* The lists of design trees of m nodes in all.
ForestsOfSize(m) ==
    IF m = 0 THEN {<<>>}
    ELSE UNION {{<<t>> \o f : t \in TreesOfSize(j), f \in ForestsOfSize(m - j)} :
                  j \in 1..m}

FigmaTrees == UNION {TreesOfSize(n) : n \in 1..MaxNodes}

RECURSIVE _collect_component_names_from_json(_, _)

\* Faulty variant: the traversal does not descend into the children.
_collect_own_only(node, components) ==
    IF node.type = "INSTANCE" THEN components \cup {node.name} ELSE components

\* components is the set the traversal adds to; the result is the set after
\* the node and its subtree have been visited.
_collect_component_names_from_json(node, components) ==
    LET own == IF node.type = "INSTANCE" THEN components \cup {node.name}
               ELSE components
        Visit[i \in 0..Len(node.children)] ==
            IF i = 0 THEN own
            ELSE _collect_component_names_from_json(node.children[i], Visit[i - 1])
    IN Visit[Len(node.children)]

_extract_component_names(figma_data) ==
    _collect_component_names_from_json(figma_data, {})

ExtractComponentNames ==
    Return("_extract_component_names", _extract_component_names(call.arg))

\* --- _check_available_components

\* Names a design may request, and one more name only a source may know.
ComponentNames == {"Button", "Card", "Input"}

KnownNames == ComponentNames \cup {"Modal"}

\* The requested names as the loop iterates them: a set of names in any order.
Requests ==
    {r \in SeqsUpTo(ComponentNames, Cardinality(ComponentNames)) :
        \A i, j \in DOMAIN r : i # j => r[i] # r[j]}

\* Faulty variant: every requested name is also listed as missing.
_check_available_lists_all_missing(known_names, components) ==
    <<SelectSeq(components, LAMBDA c : c \in known_names), components>>

\* known_names is the set built from the answer of list_components; the result
\* is the pair (available, missing).
_check_available_components(known_names, components) ==
    LET Loop[i \in 0..Len(components)] ==
          IF i = 0 THEN <<(<<>>), (<<>>)>>
          ELSE IF components[i] \in known_names
               THEN <<Append(Loop[i - 1][1], components[i]), Loop[i - 1][2]>>
               ELSE <<Loop[i - 1][1], Append(Loop[i - 1][2], components[i])>>
    IN Loop[Len(components)]

CheckAvailableComponents ==
    Return("_check_available_components",
           _check_available_components(call.arg.known, call.arg.components))

\* --- the fetch loop of _fetch_docs

\* structuredContent.get("documentation") of a component.
DocOf(comp) == <<"doc of", comp>>

\* "\n".join(docs)
Join(entries) ==
    LET J[i \in 0..Len(entries)] ==
          IF i = 0 THEN <<>>
          ELSE IF i = 1 THEN entries[1]
          ELSE J[i - 1] \o <<"\n">> \o entries[i]
    IN J[Len(entries)]

\* Faulty variant: the first failing fetch ends the loop.
fetch_available_docs_stops(available, failing) ==
    LET Loop[i \in 0..Len(available)] ==
          IF i = 0 THEN [docs |-> <<>>, calls |-> <<>>, stopped |-> FALSE]
          ELSE IF Loop[i - 1].stopped THEN Loop[i - 1]
          ELSE IF available[i] \in failing
               THEN [Loop[i - 1] EXCEPT !.calls = Append(@, available[i]),
                                        !.stopped = TRUE]
               ELSE [Loop[i - 1] EXCEPT
                       !.calls = Append(@, available[i]),
                       !.docs = Append(@, <<"### ", available[i], " \n",
                                            DocOf(available[i])>>)]
    IN [blob |-> Join(Loop[Len(available)].docs),
        calls |-> Loop[Len(available)].calls]

\* Lines 188-197 of _fetch_docs: one get_component_doc call per available
\* name; failing is the set of names whose call raises. The result is the blob
\* and the list of the calls made.
fetch_available_docs(available, failing) ==
    LET Loop[i \in 0..Len(available)] ==
          IF i = 0 THEN [docs |-> <<>>, calls |-> <<>>]
          ELSE IF available[i] \in failing
               THEN [Loop[i - 1] EXCEPT !.calls = Append(@, available[i])]
               ELSE [calls |-> Append(Loop[i - 1].calls, available[i]),
                     docs |-> Append(Loop[i - 1].docs,
                                     <<"### ", available[i], " \n",
                                       DocOf(available[i])>>)]
    IN [blob |-> Join(Loop[Len(available)].docs),
        calls |-> Loop[Len(available)].calls]

FetchAvailableDocs ==
    Return("_fetch_docs",
           fetch_available_docs(call.arg.available, call.arg.failing))

\* --- clean_code_output

\* Bound of the model: the length of a text, in characters.
MaxLen == 5

\* The characters of a text: a backtick (written q), a line break, a space, a
\* letter.
Backtick == "q"

Chars == {Backtick, "\n", " ", "x"}

Texts == SeqsUpTo(Chars, MaxLen)

Fence == <<Backtick, Backtick, Backtick>>

IsSpace(c) == c \in {"\n", " "}

\* str.strip()
strip(text) ==
    LET ink == {i \in DOMAIN text : ~IsSpace(text[i])} IN
    IF ink = {} THEN <<>>
    ELSE SubSeq(text, CHOOSE i \in ink : \A j \in ink : i <= j,
                      CHOOSE i \in ink : \A j \in ink : i >= j)

startswith(text, prefix) ==
    Len(prefix) <= Len(text) /\ SubSeq(text, 1, Len(prefix)) = prefix

endswith(text, suffix) ==
    Len(suffix) <= Len(text)
    /\ SubSeq(text, Len(text) - Len(suffix) + 1, Len(text)) = suffix

\* Where sep occurs in text.
Occurrences(text, sep) ==
    {i \in 1..(Len(text) - Len(sep) + 1) : SubSeq(text, i, i + Len(sep) - 1) = sep}

\* text.split(sep, 1): one part when sep does not occur, else the parts before
\* and after its first occurrence.
split(text, sep) ==
    LET occ == Occurrences(text, sep) IN
    IF occ = {} THEN <<text>>
    ELSE LET i == CHOOSE k \in occ : \A j \in occ : k <= j
         IN <<SubSeq(text, 1, i - 1), SubSeq(text, i + Len(sep), Len(text))>>

\* text.rsplit(sep, 1): as split, at the last occurrence.
rsplit(text, sep) ==
    LET occ == Occurrences(text, sep) IN
    IF occ = {} THEN <<text>>
    ELSE LET i == CHOOSE k \in occ : \A j \in occ : k >= j
         IN <<SubSeq(text, 1, i - 1), SubSeq(text, i + Len(sep), Len(text))>>

\* Faulty variant: the closing fence is looked for from the left.
clean_code_output_first_fence(content) ==
    LET c1 == strip(content)
        parts == split(c1, <<"\n">>)
    IN IF startswith(c1, Fence) /\ Len(parts) < 2
       THEN [raised |-> TRUE, value |-> <<>>]
       ELSE LET c2 == IF startswith(c1, Fence) THEN parts[2] ELSE c1
                c3 == IF endswith(c2, Fence) THEN split(c2, Fence)[1] ELSE c2
            IN [raised |-> FALSE, value |-> strip(c3)]

\* The result: the text returned, or raised when split(..)[1] has no second
\* part (IndexError).
clean_code_output(content) ==
    LET c1 == strip(content)
        parts == split(c1, <<"\n">>)
    IN IF startswith(c1, Fence) /\ Len(parts) < 2
       THEN [raised |-> TRUE, value |-> <<>>]
       ELSE LET c2 == IF startswith(c1, Fence) THEN parts[2] ELSE c1
                c3 == IF endswith(c2, Fence) THEN rsplit(c2, Fence)[1] ELSE c2
            IN [raised |-> FALSE, value |-> strip(c3)]

\* Language tags of an opening fence line.
Tags == {<<>>, <<"x">>}

\* The response of the model: a text as it is, or a code text between an
\* opening fence line and a closing fence.
Responses ==
    [kind : {"plain"}, tag : {<<>>}, text : Texts]
    \cup [kind : {"fenced"}, tag : Tags, text : Texts]

ContentOf(response) ==
    IF response.kind = "plain" THEN response.text
    ELSE Fence \o response.tag \o <<"\n">> \o response.text \o <<"\n">> \o Fence

CleanCodeOutput ==
    Return("clean_code_output", clean_code_output(ContentOf(call.arg)))

\* --- inject_code

\* Paths of the workspace: the generated file and another file.
Paths == {"page.tsx", "other.tsx"}

\* What a file of the workspace may hold, and what a write may be given.
FileContents == {NoFile, "", "A", "Af", "B"}

CodeArgs == {None, "", "A", "Af", "B"}

Workspaces == [Paths -> FileContents]

\* The workspace after inject_code(file_path, text) has been called n times.
RECURSIVE Written(_, _, _, _)
Written(ws, file_path, text, n) ==
    IF n = 0 THEN ws
    ELSE LET before == Written(ws, file_path, text, n - 1)
         IN [before EXCEPT ![file_path] = inject_code(@, text, FALSE)]

InjectCode ==
    Return("inject_code",
           [once |-> Written(call.arg.ws, call.arg.file_path, call.arg.text, 1),
            twice |-> Written(call.arg.ws, call.arg.file_path, call.arg.text, 2)])

\* --- _get_component_name and the branch name

\* state["task_id"][:8]
TaskIdPrefixLen == 8

\* Task ids: texts of two letters, one character shorter than the prefix, as
\* long, and one longer.
TaskIds ==
    UNION {[1..n -> {"a", "b"}] : n \in (TaskIdPrefixLen - 1)..(TaskIdPrefixLen + 1)}

\* componentName of the request.
RequestedNames == {<<>>, <<"C">>, <<"C", "d">>}

\* The state as prepare_p reads it and as push_p reads it: the same task, the
\* retry counter and the lint errors as the loop left them.
TaskStates ==
    [task_id : TaskIds, component_name : RequestedNames,
     iterations : {0, MAX_ITERATIONS}, lint_errors : {None, "lint"}]

AtPrepare(state) == [state EXCEPT !.iterations = 0, !.lint_errors = None]

\* text[:n]
Slice(text, n) == SubSeq(text, 1, IF Len(text) < n THEN Len(text) ELSE n)

\* Faulty variant: the retry counter is part of the name.
_get_component_name_counts(state) ==
    state.component_name \o <<"-">> \o Slice(state.task_id, TaskIdPrefixLen)
        \o <<state.iterations>>

_get_component_name(state) ==
    state.component_name \o <<"-">> \o Slice(state.task_id, TaskIdPrefixLen)

\* branch_name of prepare_repo and of push_code
prepare_branch_name(state) == <<"codegen/">> \o _get_component_name(state)

push_branch_name(state) == <<"codegen/">> \o _get_component_name(state)

BranchNames ==
    Return("branch_name",
           [prepare |-> prepare_branch_name(AtPrepare(call.arg)),
            push |-> push_branch_name(call.arg)])

\* --- the scope of the agent: async with CodeGeneratorAgent(task_id)

\* What the environment does to the steps of __aenter__: whether the
\* connection of the web client or the construction of the model client
\* raises. The mobile client reads a local file and catches its errors.
AgentScenarios == [web_raises : BOOLEAN, model_raises : BOOLEAN]

\* The scope before __aenter__: no client connected.
AgentScopes ==
    {[fn |-> "agent_scope", arg |-> sc, done |-> FALSE,
      res |-> [at |-> "aenter_web", open |-> {}, closed |-> {}]] :
        sc \in AgentScenarios}

\* _build_graph: InputValidationNodes has no __init__ and
\* MCPContextRetrievalNode.__init__ has no status_reporter parameter, the
\* constructor calls with status_reporter= raise TypeError.
_build_graph_raises == TRUE

\* A step of __aenter__ that raised: the except clause logs and raises again,
\* __aexit__ is not called for a scope that was not entered, and the except
\* clause of _async_code_generation returns the error.
AEnterRaised == [call EXCEPT !.done = TRUE, !.res.at = "left"]

AEnterStep(at, raises, opened, next) ==
    /\ call.fn = "agent_scope"
    /\ ~call.done
    /\ call.res.at = at
    /\ call' = IF raises THEN AEnterRaised
               ELSE [call EXCEPT !.res.at = next, !.res.open = @ \cup opened]
    /\ UNCHANGED RunVars

AEnterWeb ==
    AEnterStep("aenter_web", call.arg.web_raises, {"web"}, "aenter_mobile")

AEnterMobile ==
    AEnterStep("aenter_mobile", FALSE, {"mobile"}, "init_model")

InitGeminiModel ==
    AEnterStep("init_model", call.arg.model_raises, {}, "build_graph")

BuildGraph ==
    AEnterStep("build_graph", _build_graph_raises, {}, "entered")

\* --- two runs on the checkout of one platform

\* Every agent builds its workspace of a platform on the same local_path
\* (settings.WEB_REPO_PATH, settings.MOBILE_REPO_PATH) and takes no lock: the
\* runs of the tasks of one host work in one checkout.  The branch of a task
\* (codegen/<name>-<task id prefix>) is named here by the task.
Tasks == {"t1", "t2"}

\* The componentName of each request.
WorkspaceScenarios == [component : [Tasks -> {"C", "D"}]]

\* MobileCodeGenNodes._get_file_path (the web path has the same shape); the
\* component name it is given ends with the task id prefix, which stands here
\* as the task.
_get_file_path(component_name) == <<"app/(screens)/", component_name, ".tsx">>

\* The file a task writes, with the task whose text it holds.
FileOf(sc, t) ==
    [path |-> _get_file_path(<<sc.component[t], "-", t>>), by |-> t]

\* files over the files of base that have another path
Over(base, files) ==
    {f \in base : \A g \in files : g.path # f.path} \cup files

\* The checkout before any run: on main, no task branch, a clean tree.
\*   head    the branch checked out (None: main)
\*   local   the files each local task branch holds beyond origin/main
\*   tree    the files of the working tree that are not committed
\*   remote  the files each pushed branch holds beyond origin/main
SharedWorkspaces ==
    {[fn |-> "shared_workspace", arg |-> sc, done |-> FALSE,
      res |-> [at |-> [t \in Tasks |-> "prepare"],
               head |-> None,
               local |-> [t \in Tasks |-> None],
               tree |-> {},
               remote |-> [t \in Tasks |-> None],
               interfered |-> [t \in Tasks |-> FALSE]]] :
        sc \in WorkspaceScenarios}

\* RepositoryWorkspace.prepare_repo: git reset --hard origin/main moves the
\* branch that is checked out, git clean -fd empties the tree, git checkout -B
\* makes the branch of the task at that commit and checks it out.
workspace_prepare_repo(ws, t) ==
    [ws EXCEPT
       !.local = [b \in Tasks |-> IF b = t \/ b = ws.head THEN {} ELSE @[b]],
       !.tree = {},
       !.head = t]

\* RepositoryWorkspace.inject_code: the file at the path holds the text.
workspace_inject_code(ws, f) == [ws EXCEPT !.tree = Over(@, {f})]

\* RepositoryWorkspace.commit_and_push: git add . ; nothing to commit returns;
\* git commit goes to the branch that is checked out; git push --force sends
\* the local branch of the task.
workspace_commit_and_push(ws, t) ==
    IF ws.tree = {} THEN ws
    ELSE LET committed ==
               [ws EXCEPT !.local[ws.head] = Over(@, ws.tree), !.tree = {}]
         IN [committed EXCEPT !.remote[t] = committed.local[t]]

\* The runs, other than t, that are between their prepare and their push.
Between(ws, t) == {u \in Tasks \ {t} : ws.at[u] \in {"write", "push"}}

SharedStep(t, at, next, ws, interferes) ==
    /\ call.fn = "shared_workspace"
    /\ ~call.done
    /\ call.res.at[t] = at
    /\ call' = [call EXCEPT
                  !.res = [ws EXCEPT
                             !.at[t] = next,
                             !.interfered =
                                [u \in Tasks |->
                                   @[u] \/ (interferes /\ u \in Between(ws, t))]],
                  !.done = \A u \in Tasks \ {t} : ws.at[u] = "done"
                           /\ next = "done"]
    /\ UNCHANGED RunVars

SharedPrepareRepo ==
    \E t \in Tasks :
        SharedStep(t, "prepare", "write",
                   workspace_prepare_repo(call.res, t), TRUE)

SharedWriteFile ==
    \E t \in Tasks :
        SharedStep(t, "write", "push",
                   workspace_inject_code(call.res, FileOf(call.arg, t)), TRUE)

SharedPushCode ==
    \E t \in Tasks :
        SharedStep(t, "push", "done",
                   workspace_commit_and_push(call.res, t), FALSE)

\* --- the specification of the helpers

InitFn ==
    /\ RunAtRest
    /\ call \in Calls("_extract_component_names", FigmaTrees)
           \cup Calls("_check_available_components",
                      [known : SUBSET KnownNames, components : Requests])
           \cup Calls("_fetch_docs",
                      [available : Requests, failing : SUBSET ComponentNames])
           \cup Calls("clean_code_output", Responses)
           \cup Calls("inject_code",
                      [ws : Workspaces, file_path : Paths, text : CodeArgs])
           \cup Calls("branch_name", TaskStates)
           \cup AgentScopes
           \cup SharedWorkspaces

NextFn ==
    \/ ExtractComponentNames
    \/ CheckAvailableComponents
    \/ FetchAvailableDocs
    \/ CleanCodeOutput
    \/ InjectCode
    \/ BranchNames
    \/ AEnterWeb
    \/ AEnterMobile
    \/ InitGeminiModel
    \/ BuildGraph
    \/ SharedPrepareRepo
    \/ SharedWriteFile
    \/ SharedPushCode

SpecFn == InitFn /\ [][NextFn]_vars

\* ---------------------------------------------------------------- claims

IsPrefix(a, b) == Len(a) <= Len(b) /\ SubSeq(b, 1, Len(a)) = a

\* The events of branch p in a log, in the order of the log.
OfBranch(log, p) ==
    LET F[i \in 0..Len(log)] ==
          IF i = 0 THEN <<>>
          ELSE IF log[i].scope[1] = p THEN Append(F[i - 1], log[i])
          ELSE F[i - 1]
    IN F[Len(log)]

LaterStages == {"generate", "write", "lint", "fix", "push"}

PlatformStages == {"prepare"} \cup LaterStages

\* C1: the router of platform p returns fix exactly when lintErrors[p] is set
\* (not absent) and retryCount[p] < MAX_ITERATIONS, and push otherwise; it
\* returns no third destination.
C1_RouterFixIffErrorsSet ==
    \A p \in Platforms :
      LET r == hist.routed[p] IN
      r.dest # "none" =>
        /\ r.dest \in {"fix", "push"}
        /\ r.dest = "fix" <=> (r.errors # None /\ r.iterations < MAX_ITERATIONS)

\* C2: the lint -> fix -> write -> lint loop is bounded by the retry ceiling
\* whatever the linter, the model and the workspace do: after its
\* MAX_ITERATIONS-th lint run a branch goes to push and is not routed to fix
\* again.
C2_LoopBoundedByCeiling ==
    \A p \in Platforms :
      ~(pc[p] = "fix" /\ hist.lintRuns[p] >= MAX_ITERATIONS)

\* C3: when push_p is about to execute, either the latest lint run of p
\* succeeded and lintErrors[p] is absent, or retryCount[p] has reached
\* MAX_ITERATIONS.
C3_PushOnlyCleanOrCeiling ==
    \A p \in Platforms :
      pc[p] = "push" =>
        \/ hist.lastLint[p] = "passed" /\ lint_errors[p] = None
        \/ iterations[p] >= MAX_ITERATIONS

\* C4: retryCount[p] never decreases in a step; a node writes 0 to it only in
\* prepare_p, as the first write of the run, and once branch p is past prepare
\* that write has happened exactly once.
ResetOnce(p) ==
    LET w == hist.iterWrites[p]
        zeros == {i \in DOMAIN w : w[i].value = 0} IN
    /\ \A i \in zeros : w[i].stage = "prepare" /\ i = 1
    /\ pc[p] \in LaterStages \cup {"END"} => Cardinality(zeros) = 1

C4_RetryCountMonotone ==
    [][\A p \in Platforms :
         /\ iterations'[p] >= iterations[p]
         /\ ResetOnce(p)']_vars

C4_Witness ==
    \E p \in Platforms :
      /\ pc[p] = "END"
      /\ iterations[p] = 2
      /\ hist.fixRuns[p] = 2

\* C5: if the prepare step of p raised, then no later stage of p has executed
\* and, when the run has handed back its result, the sibling branch has run
\* through to its push.
C5_SiblingReachesPush ==
    \A p \in Platforms :
      hist.raisedBy = Node("prepare", p) =>
        /\ \A st \in LaterStages : Node(st, p) \notin hist.executed
        /\ run = "returned" => Node("push", Other(p)) \in hist.executed

\* C6: with an absent or empty design tree, validation appends exactly one
\* common-scope error event and the graph ends: no other node executes and the
\* workspace, the documentation, the code and the remote are untouched.
C6_ValidationGate ==
    (figma_json \in {"null", "empty"} /\ ValidateNode \in hist.executed) =>
      /\ status_history = <<Ev(Common, "error")>>
      /\ pcMain = "END"
      /\ hist.executed = {ValidateNode}
      /\ \A p \in Platforms :
           /\ docs[p] = None /\ code[p] = None
           /\ file[p] = NoFile /\ commit[p] = None /\ remote[p] = NoFile

C6_Witness ==
    /\ figma_json = "empty"
    /\ run = "returned"
    /\ taskResult.status_history = <<Ev(Common, "error")>>

\* C7, as stated: if a documentation source raised anywhere in its fetch (in
\* the component listing or in a per-component documentation call), the
\* context stage did not raise, docs of that platform is the fixed placeholder,
\* docs of the other platform is what its fetch returned, and both pipelines
\* are activated.
C7_AnySourceFailureIsolated ==
    \A p \in Platforms :
      hist.srcOutcome[p] \in {"list_raised", "doc_raised"} =>
        /\ hist.raisedBy # RetrieveNode
        /\ docs[p] = Placeholder(p)
        /\ hist.srcResult[Other(p)] # "raised" =>
             docs[Other(p)] = hist.srcResult[Other(p)]
        /\ \A q \in Platforms : pc[q] # "waiting"

\* C7, amended: if the fetch of a documentation source raised (an exception of
\* its component listing, the only one that leaves the fetch), the context
\* stage did not raise, docs of that platform is the fixed placeholder, docs of
\* the other platform is what its fetch returned, and both pipelines are
\* activated; an exception of a per-component documentation call is caught
\* inside the fetch and docs of that platform is the blob without that
\* component.
C7_DocsSourceIsolation ==
    /\ \A p \in Platforms :
         hist.srcResult[p] = "raised" =>
           /\ hist.raisedBy # RetrieveNode
           /\ docs[p] = Placeholder(p)
           /\ hist.srcResult[Other(p)] # "raised" =>
                docs[Other(p)] = hist.srcResult[Other(p)]
           /\ \A q \in Platforms : pc[q] # "waiting"
    /\ \A p \in Platforms :
         hist.srcOutcome[p] = "doc_raised" => docs[p] = ""

C7_Witness ==
    /\ hist.srcResult["mobile"] = "raised"
    /\ hist.srcResult["web"] = "docs"
    /\ docs["web"] = "docs"
    /\ code["web"] # None
    /\ pc["web"] = "END"

\* C8: status_history is append-only: in every step the old value is a prefix
\* of the new value.
C8_HistoryAppendOnly ==
    [][IsPrefix(status_history, status_history')]_vars

C8_Witness ==
    /\ Len(status_history) >= 6
    /\ \A p \in Platforms : Len(hist.returned[p]) >= 2

\* C9: the events of each branch appear in status_history exactly as the
\* branch returned them: none lost, none added, in the branch's own order.
C9_BranchOrderPreserved ==
    \A p \in Platforms : OfBranch(status_history, p) = hist.returned[p]

C9_Witness ==
    /\ run = "returned"
    /\ \A p \in Platforms : Len(hist.returned[p]) >= 3
    /\ \E i \in 1..(Len(status_history) - 2) :
         /\ status_history[i].scope[1] = "web"
         /\ status_history[i + 1].scope[1] = "mobile"
         /\ status_history[i + 2].scope[1] = "web"

\* C10: the result handed back to the caller holds the status history with
\* every event appended before the run ended, also when a node raised.
C10_ResultHoldsHistory ==
    run = "returned" =>
      /\ "status_history" \in taskResult.keys
      /\ taskResult.status_history = status_history

\* The lint runs of p were k failures followed by one success.
CleanExit(p, k) ==
    hist.lintSeq[p] = [i \in 1..(k + 1) |-> IF i <= k THEN "failed" ELSE "passed"]

\* C11: for k in 0..2, if the linter reported failure on the first k lint runs
\* of p and success on run k+1, then fix_p executed exactly k times, the branch
\* went to push right after that run, retryCount[p] = k, lintErrors[p] is
\* absent and the commit message carries no forced-publish marker.
C11_CleanPathExit ==
    \A p \in Platforms : \A k \in 0..(MAX_ITERATIONS - 1) :
      CleanExit(p, k) =>
        /\ hist.fixRuns[p] = k
        /\ pc[p] \in {"push", "END"}
        /\ iterations[p] = k
        /\ lint_errors[p] = None
        /\ hist.pushMsg[p] # "forced"
        /\ commit[p] # "forced"

C11_Witness ==
    \E p \in Platforms :
      /\ CleanExit(p, 2)
      /\ pc[p] = "END"
      /\ iterations[p] = 2
      /\ commit[p] = "plain"

\* The linter reported failure on all MAX_ITERATIONS lint runs of p.
AllFailed(p) ==
    hist.lintSeq[p] = [i \in 1..MAX_ITERATIONS |-> "failed"]

\* C12: if the linter reported failure on all MAX_ITERATIONS lint runs of p,
\* the branch goes to push, lintErrors[p] stays set, and the commit message
\* push_p passes to the workspace carries the forced-publish marker;
\* conversely the marker is passed only when lintErrors[p] is set.
C12_ForcedPublish ==
    \A p \in Platforms :
      /\ AllFailed(p) =>
           /\ pc[p] \in {"push", "END"}
           /\ lint_errors[p] # None
           /\ hist.pushRuns[p] > 0 => hist.pushMsg[p] = "forced"
      /\ hist.pushMsg[p] = "forced" => lint_errors[p] # None

\* C13: when push_p has executed with lintErrors[p] set, the events it appended
\* to the status history mark the publish as forced: they are not the events a
\* clean publish of p appends.
C13_ForcedPublishEvent ==
    \A p \in Platforms :
      (hist.pushRuns[p] > 0 /\ lint_errors[p] # None) =>
        \A raised \in BOOLEAN :
          hist.pushEvents[p] # Events(push_code(p, raised, None))

\* Branch p executes a lint run in this step and the linter reports success.
LintPassedStep(p) ==
    /\ pc[p] = "lint"
    /\ hist'.lintRuns[p] = hist.lintRuns[p] + 1
    /\ hist'.lastLint[p] = "passed"

\* C14: a lint run the linter reports as successful leaves code[p] equal to the
\* file as the linter left it, lintErrors[p] absent and retryCount[p]
\* unchanged.
C14_PassedLintReadsFileBack ==
    [][\A p \in Platforms :
         LintPassedStep(p) =>
           /\ file'[p] = Reformat(file[p])
           /\ code'[p] = file'[p]
           /\ lint_errors'[p] = None
           /\ iterations'[p] = iterations[p]]_vars

\* A successful lint run after a failed one, where the linter rewrote the
\* candidate: code differs from what generate produced.
C14_Witness ==
    \E p \in Platforms :
      /\ hist.lintSeq[p] = <<"failed", "passed">>
      /\ \E c \in FixOutputs \cup GenOutputs : c # Reformat(c) /\ code[p] = Reformat(c)
      /\ code[p] = file[p]
      /\ iterations[p] = 1

\* Branch p executes a lint run in this step and it does not succeed: the
\* linter reports failure, or the step raises while running the linter or
\* reading the file back.
LintNotPassedStep(p) ==
    /\ pc[p] = "lint"
    /\ hist'.lintRuns[p] = hist.lintRuns[p] + 1
    /\ hist'.lastLint[p] \in {"failed", "raised"}

\* C15: every lint run of p that does not succeed sets lintErrors[p] and adds
\* exactly one to retryCount[p] in the same update.
C15_FailedLintCountsOnce ==
    [][\A p \in Platforms :
         LintNotPassedStep(p) =>
           /\ lint_errors'[p] # None
           /\ iterations'[p] = iterations[p] + 1]_vars

\* Branch p executes its generate step in this step and the model call raises.
GenRaisedStep(p) ==
    /\ pc[p] = "generate"
    /\ pc'[p] # "generate"
    /\ faults' = faults + 1

\* C16: if the model call of generate_p raises, the step does not raise: it
\* appends exactly one error event, does not set code[p], and the branch goes
\* on to write.
C16_GenerateFailureContained ==
    [][\A p \in Platforms :
         GenRaisedStep(p) =>
           /\ run' = "running"
           /\ status_history' = status_history \o <<Ev(_key(p, "gen"), "error")>>
           /\ code'[p] = code[p]
           /\ pc'[p] = "write"]_vars

\* A branch whose generation failed went through write and lint to the router.
C16_Witness ==
    \E p \in Platforms :
      /\ \E i \in DOMAIN hist.returned[p] :
           hist.returned[p][i] = Ev(_key(p, "gen"), "error")
      /\ Node("write", p) \in hist.executed
      /\ Node("lint", p) \in hist.executed
      /\ hist.routed[p].dest # "none"

\* Branch p executes its write step in this step with code[p] absent.
WriteNoCodeStep(p) ==
    /\ pc[p] = "write"
    /\ code[p] = None
    /\ pc'[p] # "write"

\* C17: a write step of p that runs with code[p] absent does not raise, leaves
\* the workspace file as it was, and appends a warning event.
C17_WriteWithoutCodeIsNoOp ==
    [][\A p \in Platforms :
         WriteNoCodeStep(p) =>
           /\ run' = "running"
           /\ file'[p] = file[p]
           /\ status_history' =
                status_history \o <<Ev(_key(p, "write"), "warning")>>]_vars

\* Branch p executes its fix step in this step and the model call or the fence
\* stripping raises.
FixRaisedStep(p) ==
    /\ pc[p] = "fix"
    /\ pc'[p] # "fix"
    /\ faults' = faults + 1

\* C18: a fix step of p that fails does not raise and leaves code[p],
\* lintErrors[p] and retryCount[p] as they were; the branch goes on to write,
\* which writes the same candidate again.
C18_FixFailureLeavesState ==
    [][\A p \in Platforms :
         FixRaisedStep(p) =>
           /\ run' = "running"
           /\ code'[p] = code[p]
           /\ lint_errors'[p] = lint_errors[p]
           /\ iterations'[p] = iterations[p]
           /\ pc'[p] = "write"]_vars

\* After a failed fix the candidate of generate was written and linted again.
C18_Witness ==
    \E p \in Platforms :
      /\ hist.lintSeq[p] = <<"failed", "failed">>
      /\ hist.fixRuns[p] = 1
      /\ code[p] \in GenOutputs
      /\ iterations[p] = 2

\* C19: every error raised by a model invocation, in generate_p and in fix_p,
\* is converted into a status event recording the failure, leaves the output
\* field code[p] unset (not updated), and does not make the run raise.
C19_ModelErrorBecomesEvent ==
    [][\A p \in Platforms :
         (GenRaisedStep(p) \/ FixRaisedStep(p)) =>
           /\ run' = "running"
           /\ code'[p] = code[p]
           /\ Len(status_history') = Len(status_history) + 1
           /\ status_history'[Len(status_history')].status = "error"
           /\ status_history'[Len(status_history')].scope[1] = p]_vars

\* Branch p executes its push step in this step and commit_and_push raises.
PushRaisedStep(p) ==
    /\ pc[p] = "push"
    /\ pc'[p] # "push"
    /\ faults' = faults + 1

\* C20: if commit_and_push raises during push_p, the step appends one error
\* event, does not raise, and the branch goes to the terminal node; a branch
\* never leaves the terminal node and push_p executes at most once.
C20_PushFailureNotRetried ==
    [][\A p \in Platforms :
         /\ PushRaisedStep(p) =>
              /\ run' = "running"
              /\ status_history' =
                   status_history \o <<Ev(_key(p, "git"), "error")>>
              /\ pc'[p] = "END"
         /\ pc[p] = "END" => pc'[p] = "END"
         /\ hist'.pushRuns[p] <= 1]_vars

\* A run that returned normally although the push of one branch failed.
C20_Witness ==
    \E p \in Platforms :
      /\ hist.pushEvents[p] = <<Ev(_key(p, "git"), "error")>>
      /\ hist.pushRuns[p] = 1
      /\ pc[p] = "END"
      /\ run = "returned"
      /\ "status_history" \in taskResult.keys

\* The call of helper fn has returned.
Returned_(fn) == call.fn = fn /\ call.done

\* ------------------------------------------------------------------ C21

SetOf(seq) == {seq[i] : i \in DOMAIN seq}

\* C21: at the end of a run in which the sink never failed, the events stored
\* in the sink are exactly the events of the final status_history: none only in
\* the sink, none only in the history.
C21_SinkHoldsExactlyHistory ==
    (sinkUp /\ run = "returned" /\ "status_history" \in taskResult.keys) =>
        SetOf(sink) = SetOf(taskResult.status_history)

\* ------------------------------------------------------------------ C22

\* A node that reports to a failing sink.
ReportToDeadSinkStep ==
    /\ ~sinkUp
    /\ run = "running"
    /\ \E p \in Platforms : steps'[p] # steps[p] \/ hist'.executed # hist.executed

\* C22: a failure of the sink during report never reaches the run: in a run
\* whose sink fails, a step ends the run only when the node itself raised,
\* nothing is stored, and the node's update and route are those of a working
\* sink (the history and the branch position move as the node decides).
C22_SinkFailureNeverPropagates ==
    [][ReportToDeadSinkStep =>
          /\ sink' = sink
          /\ run' = "raised" => hist'.raisedBy # hist.raisedBy
          /\ run' = "running" => IsPrefix(status_history, status_history')
       ]_vars

C22_Witness ==
    /\ ~sinkUp
    /\ sink = <<>>
    /\ run = "returned"
    /\ "status_history" \in taskResult.keys
    /\ \A p \in Platforms : pc[p] = "END" /\ hist.pushRuns[p] = 1

\* ------------------------------------------------------------------ C23

RECURSIVE NodesOf(_)

\* The nodes of a design tree, the root included.
NodesOf(tree) ==
    {tree} \cup UNION {NodesOf(tree.children[i]) : i \in DOMAIN tree.children}

RECURSIVE CountInstances(_, _)

\* How many instance nodes of the tree carry the name.
CountInstances(tree, name) ==
    LET Sum[i \in 0..Len(tree.children)] ==
          IF i = 0 THEN 0
          ELSE Sum[i - 1] + CountInstances(tree.children[i], name)
    IN Sum[Len(tree.children)]
       + (IF tree.type = "INSTANCE" /\ tree.name = name THEN 1 ELSE 0)

\* C23: the extraction returns exactly the names of the instance nodes of the
\* tree, at any depth, each name once.
C23_ExtractionIsInstanceNameSet ==
    Returned_("_extract_component_names") =>
        call.res = {n.name : n \in {m \in NodesOf(call.arg) : m.type = "INSTANCE"}}

\* Three instance nodes named Button, one of them below a child of the root,
\* beside a frame: the result is the single name.
C23_Witness ==
    /\ Returned_("_extract_component_names")
    /\ CountInstances(call.arg, "Button") = 3
    /\ call.arg.type = "FRAME" /\ call.arg.name = "Frame"
    /\ \E i \in DOMAIN call.arg.children :
          call.arg.children[i].children # <<>>
    /\ call.res = {"Button"}
    /\ Cardinality(call.res) = 1

\* ------------------------------------------------------------------ C24

\* C24: available is the requested names the source knows, missing the
\* requested names it does not know: the two are disjoint and together are the
\* requested names.
C24_AvailableAndMissingPartition ==
    Returned_("_check_available_components") =>
        LET requested == SetOf(call.arg.components)
            available == SetOf(call.res[1])
            missing == SetOf(call.res[2])
        IN /\ available = requested \cap call.arg.known
           /\ missing = requested \ call.arg.known
           /\ available \cap missing = {}
           /\ available \cup missing = requested

\* Some requested names are known, some are not, and the source knows a name
\* nobody requested.
C24_Witness ==
    /\ Returned_("_check_available_components")
    /\ call.res[1] # <<>>
    /\ call.res[2] # <<>>
    /\ call.arg.known \ SetOf(call.arg.components) # {}

\* ------------------------------------------------------------------ C25

\* The docs entry of a component, as the blob holds it.
HasEntry(blob, comp) ==
    \E i \in 1..(Len(blob) - 3) :
        SubSeq(blob, i, i + 3) = <<"### ", comp, " \n", DocOf(comp)>>

\* C25: a failing fetch of one name does not end the source: every available
\* name is fetched, and the blob holds an entry for exactly the names whose
\* fetch succeeded, in the order of the fetches.
C25_FetchFailureSkipsOneName ==
    Returned_("_fetch_docs") =>
        LET available == call.arg.available
            succeeded == SelectSeq(available, LAMBDA c : c \notin call.arg.failing)
        IN /\ call.res.calls = available
           /\ \A c \in ComponentNames :
                HasEntry(call.res.blob, c) <=> c \in SetOf(succeeded)
           /\ Len(call.res.blob) =
                IF succeeded = <<>> THEN 0 ELSE 5 * Len(succeeded) - 1

\* The first fetch fails and a later one succeeds.
C25_Witness ==
    /\ Returned_("_fetch_docs")
    /\ Len(call.arg.available) = 3
    /\ call.arg.available[1] \in call.arg.failing
    /\ call.arg.available[3] \notin call.arg.failing
    /\ HasEntry(call.res.blob, call.arg.available[3])
    /\ ~HasEntry(call.res.blob, call.arg.available[1])

\* ------------------------------------------------------------------ C26

\* C26: when a documentation source raised, the context stage has appended an
\* event with status error to the history, and no plain success event.
C26_SourceFailureAppendsErrorEvent ==
    \A p \in Platforms :
      (RetrieveNode \in hist.executed /\ hist.srcResult[p] = "raised") =>
         /\ \E i \in DOMAIN status_history :
               /\ status_history[i].scope = Common
               /\ status_history[i].status = "error"
         /\ Len(SelectSeq(status_history,
                          LAMBDA e : e = Ev(Common, "success"))) <= 1

\* ------------------------------------------------------------------ C27

\* A code text of the claim: no white space at either end, no fence marker at
\* either end.
CleanText(text) ==
    /\ strip(text) = text
    /\ ~startswith(text, Fence)
    /\ ~endswith(text, Fence)

\* C27: stripping a clean code text put between an opening fence line, with or
\* without a language tag, and a closing fence gives the code text back; and
\* stripping a response that holds no fence gives the response trimmed.
C27_FenceStrippingRoundTrip ==
    Returned_("clean_code_output") =>
        /\ (call.arg.kind = "fenced" /\ CleanText(call.arg.text)) =>
              call.res = [raised |-> FALSE, value |-> call.arg.text]
        /\ (call.arg.kind = "plain" /\ Occurrences(call.arg.text, Fence) = {}) =>
              call.res = [raised |-> FALSE, value |-> strip(call.arg.text)]

\* A tagged fenced response whose code holds a fence marker and a line break
\* inside.
C27_Witness ==
    /\ Returned_("clean_code_output")
    /\ call.arg.kind = "fenced"
    /\ call.arg.tag # <<>>
    /\ CleanText(call.arg.text)
    /\ Occurrences(call.arg.text, Fence) # {}
    /\ call.res.value = call.arg.text

\* ------------------------------------------------------------------ C28

\* C28: writing the same code text twice leaves the workspace as writing it
\* once does: the file holds exactly that text, whatever it held before, and
\* the other files are as they were.
C28_WriteIdempotent ==
    (Returned_("inject_code") /\ call.arg.text # None) =>
        /\ call.res.twice = call.res.once
        /\ call.res.once[call.arg.file_path] = call.arg.text
        /\ \A q \in Paths \ {call.arg.file_path} :
              call.res.once[q] = call.arg.ws[q]

\* The file held another text before the writes.
C28_Witness ==
    /\ Returned_("inject_code")
    /\ call.arg.text = "B"
    /\ call.arg.ws[call.arg.file_path] = "Af"
    /\ call.res.twice[call.arg.file_path] = "B"

\* ------------------------------------------------------------------ C29

\* C29: the branch name prepare_p gives to the workspace and the one push_p
\* gives to it are the same value, codegen/<componentName>-<first 8 characters
\* of taskId>, whatever the retry counter and the lint errors are at push.
C29_BranchNameSameInPrepareAndPush ==
    Returned_("branch_name") =>
        LET id == call.arg.task_id
            first8 == [i \in 1..(IF Len(id) < 8 THEN Len(id) ELSE 8) |-> id[i]]
            expected == <<"codegen/">> \o call.arg.component_name \o <<"-">> \o first8
        IN /\ call.res.prepare = expected
           /\ call.res.push = expected

\* A task id longer than the prefix, and a push after the loop hit the ceiling
\* with lint errors left.
C29_Witness ==
    /\ Returned_("branch_name")
    /\ Len(call.arg.task_id) > 8
    /\ call.arg.task_id[9] # call.arg.task_id[8]
    /\ call.arg.iterations = MAX_ITERATIONS
    /\ call.arg.lint_errors # None
    /\ call.arg.component_name # <<>>
    /\ call.res.push = call.res.prepare

\* ------------------------------------------------------------------ C30

\* prepare, generate, write, lint, k times (fix, write, lint), push
RECURSIVE StageTemplate(_)
StageTemplate(k) ==
    IF k = 0 THEN <<"prepare", "generate", "write", "lint">>
    ELSE StageTemplate(k - 1) \o <<"fix", "write", "lint">>

\* The stages follow the template: as far as they go, they are the template of
\* some number of loop passes, with push, if there, at its end.
FollowsTemplate(tr) ==
    \E k \in 0..Len(tr) : IsPrefix(tr, StageTemplate(k) \o <<"push">>)

\* C30: the nodes of branch p run as prepare, generate, write, lint, any
\* number of (fix, write, lint), push: prepare, generate and push at most
\* once, every lint right after a write, every fix right after a lint that left
\* lint_errors[p] set, nothing after push.
C30_StageOrder ==
    [][\A p \in Platforms :
         hist'.trace[p] # hist.trace[p] =>
           LET tr == hist'.trace[p]
               n == Len(tr)
               Count(stage) == Cardinality({i \in 1..n : tr[i] = stage}) IN
           /\ hist.trace[p] = SubSeq(tr, 1, n - 1)
           /\ FollowsTemplate(tr)
           /\ \A stage \in {"prepare", "generate", "push"} : Count(stage) <= 1
           /\ tr[n] = "lint" => n > 1 /\ tr[n - 1] = "write"
           /\ tr[n] = "fix" =>
                 /\ n > 1 /\ tr[n - 1] = "lint"
                 /\ lint_errors[p] # None
                 /\ hist.lastLint[p] # "passed"
           /\ \A i \in 1..(n - 1) : tr[i] # "push"
      ]_vars

\* One branch went twice through the loop and pushed, the other pushed after
\* its first lint; the run returned.
C30_Witness ==
    /\ run = "returned"
    /\ \E p \in Platforms :
          /\ hist.trace[p] = StageTemplate(2) \o <<"push">>
          /\ hist.trace[Other(p)] = StageTemplate(0) \o <<"push">>

\* ------------------------------------------------------------------ C31

\* C31: no node of a platform pipeline runs before validation has appended its
\* success event and the context stage has finished for every documentation
\* source (text or the placeholder); both pipelines are activated together
\* from that finished stage.
C31_FanInBeforeFanOut ==
    \A p \in Platforms :
      (pc[p] # "waiting" \/ hist.trace[p] # <<>>) =>
        /\ ValidateNode \in hist.executed
        /\ Len(status_history) >= 2
        /\ status_history[1] = Ev(Common, "success")
        /\ RetrieveNode \in hist.executed
        /\ hist.raisedBy # RetrieveNode
        /\ \A q \in Platforms :
              /\ hist.srcResult[q] # "unset"
              /\ docs[q] \in DocBlobs \cup {Placeholder(q)}
              /\ pc[q] # "waiting"

\* Both pipelines have run their first node after a context stage in which one
\* source raised and the other answered.
C31_Witness ==
    \E p \in Platforms :
      /\ hist.trace[p] = <<"prepare">>
      /\ hist.trace[Other(p)] = <<"prepare">>
      /\ docs[p] = Placeholder(p)
      /\ docs[Other(p)] = "docs"

\* ------------------------------------------------------------------ C32

\* A node of branch p runs.
NodeStep(p) == hist'.trace[p] # hist.trace[p]

\* C32: a node of platform p changes only code, lint_errors and iterations of
\* p and appends to status_history: code, lint_errors and iterations of the
\* other platform and the docs of both stay as they were, and no step changes
\* the input of the run.
C32_OwnershipFrame ==
    [][/\ figma_json' = figma_json
       /\ \A p \in Platforms :
            NodeStep(p) =>
              /\ code'[Other(p)] = code[Other(p)]
              /\ lint_errors'[Other(p)] = lint_errors[Other(p)]
              /\ iterations'[Other(p)] = iterations[Other(p)]
              /\ docs' = docs
              /\ IsPrefix(status_history, status_history')
      ]_vars

\* The linter of p has failed twice while the sibling holds its linted code,
\* no errors and a counter of 0.
C32_Witness ==
    \E p \in Platforms :
      /\ hist.lintSeq[p] = <<"failed", "failed">>
      /\ iterations[p] = 2
      /\ lint_errors[p] # None
      /\ hist.lastLint[Other(p)] = "passed"
      /\ iterations[Other(p)] = 0
      /\ lint_errors[Other(p)] = None
      /\ code[Other(p)] = "Af"

\* ------------------------------------------------------------------ C33

\* The keys the nodes and the router of branch p have written or read so far.
FieldsUsed(p) ==
    (IF hist.trace[p] # <<>>
     THEN {Shared("task_id"), Shared("component_name")} ELSE {})
    \cup (IF hist.iterWrites[p] # <<>> THEN {_key(p, "iterations")} ELSE {})
    \cup (IF hist.lintRuns[p] > 0
          THEN {_key(p, "lint_errors"), _key(p, "iterations")} ELSE {})
    \cup (IF hist.returned[p] # <<>> THEN {Shared("status_history")} ELSE {})
    \cup (IF code[p] # None THEN {_key(p, "code")} ELSE {})
    \cup (IF "generate" \in SetOf(hist.trace[p]) THEN {_key(p, "docs")} ELSE {})

\* C33: every field a node writes or a node or router reads is a declared
\* field of the execution state.
C33_UsedFieldsAreDeclared ==
    \A p \in Platforms : FieldsUsed(p) \subseteq DeclaredFields

\* ------------------------------------------------------------------ C34

\* C34: every client connection the agent opened is closed by the time the
\* scope of the agent is left, on every exit path.
C34_ClientsClosedWhenScopeLeft ==
    (call.fn = "agent_scope" /\ call.done) =>
        call.res.open \subseteq call.res.closed

\* ------------------------------------------------------------------ C35

\* C35: a commit is created only from a non-empty working tree, the branch is
\* pushed only when a commit was created, and the push step appends its
\* success event only when the branch was pushed to the remote.
C35_SuccessEventOnlyWhenPushed ==
    \A p \in Platforms :
      /\ commit[p] # None => tree_dirty(file[p])
      /\ remote[p] # NoFile => commit[p] # None
      /\ hist.pushEvents[p] = <<Ev(_key(p, "git"), "success")>> =>
            remote[p] # NoFile

\* ------------------------------------------------------------------ C36

\* C36: in every state of a run the retry counter of p is between 0 and
\* MAX_ITERATIONS, the lint step of p has run at most MAX_ITERATIONS times and
\* the fix step at most MAX_ITERATIONS - 1 times.
C36_RetryBounds ==
    \A p \in Platforms :
      /\ iterations[p] \in 0..MAX_ITERATIONS
      /\ hist.lintRuns[p] <= MAX_ITERATIONS
      /\ hist.fixRuns[p] <= MAX_ITERATIONS - 1

\* ------------------------------------------------------------------ C37

\* Texts that came from a model response of the run, as the model returned them
\* or as the linter rewrote them.
ModelTexts ==
    LET raw == GenOutputs \cup FixOutputs IN raw \cup {Reformat(t) : t \in raw}

\* C37: whenever push_p has created a commit, code[p] is present and the
\* generated file holds text that came from a model response of this run.
C37_CommitHoldsModelText ==
    \A p \in Platforms :
      commit[p] # None =>
        /\ code[p] # None
        /\ file[p] \in ModelTexts

\* ------------------------------------------------------------------ C38

\* C38: for every design tree that passed the validation gate, the context
\* stage returns without raising, with a docs value or the placeholder for
\* each platform.
C38_ContextStageContainsExtractionFailure ==
    (validate_input(figma_json) = [status_history |-> <<Ev(Common, "success")>>]
     /\ RetrieveNode \in hist.executed) =>
        /\ hist.raisedBy # RetrieveNode
        /\ \A p \in Platforms : docs[p] \in DocBlobs \cup {Placeholder(p)}

\* ------------------------------------------------------------------ C39

\* C39: two runs that overlap on one host do not interfere through the local
\* checkout of a platform: between a run's prepare and its push no other run
\* resets the checkout, switches its branch or writes into it, and the branch a
\* run has pushed holds its own generated file and nothing else.
C39_RunsDoNotShareCheckout ==
    call.fn = "shared_workspace" =>
        \A t \in Tasks :
            /\ ~call.res.interfered[t]
            /\ call.res.at[t] = "done" =>
                   call.res.remote[t] = {FileOf(call.arg, t)}

====
